---- MODULE Spec2Model ----
(***************************************************************************)
(* RentryArchiver (src/main.py): the HTML-to-markup rendering engine.      *)
(*                                                                         *)
(* A Python str is a sequence of one-character strings.  A DOM node is a   *)
(* record: a text node (NavigableString) is [name |-> "#text", text |-> s] *)
(* and an element (Tag) is [name, attrs, children], attrs being a record   *)
(* that always carries class (a set of class tokens) and carries another   *)
(* attribute only when the element has it.                                 *)
(***************************************************************************)
EXTENDS Integers, Sequences, FiniteSets, TLC

VARIABLES
    pc,                 \* position in the operation under way
    input,              \* what the operation is called on: a DOM node or a string
    ctx,                \* the _Ctx the operation is called with
    heading_id_level,   \* archive's local dict (line 31)
    scanned,            \* number of headings the loop of lines 32-38 has visited
    stack,              \* the call stack of the render pass
    raw,                \* the fragment the operation returns
    result              \* the string the final step of archive returns

vars == <<pc, input, ctx, heading_id_level, scanned, stack, raw, result>>

(***************************************************************************)
(* Python str operations                                                   *)
(***************************************************************************)
Min(S) == CHOOSE x \in S : \A y \in S : x <= y
Max(S) == CHOOSE x \in S : \A y \in S : x >= y

\* Two characters that a TLA+ string literal cannot hold, as atoms.
VT == "\\v"
BACKTICK == "BACKTICK"

\* The characters str.strip() / str.rstrip() remove.
WHITESPACE == {" ", "\t", "\n", "\r", "\f", VT}

\* The characters str.splitlines() breaks on.
LINE_BREAKS == {"\n", "\r", "\f", VT}

\* WS_RE = [ \t\r\f\v]+  (line 9)
WS_RE == {" ", "\t", "\r", "\f", VT}

lstrip(s, cs) ==
    LET k == {i \in 1..Len(s) : s[i] \notin cs}
    IN  IF k = {} THEN <<>> ELSE SubSeq(s, Min(k), Len(s))

rstrip(s, cs) ==
    LET k == {i \in 1..Len(s) : s[i] \notin cs}
    IN  IF k = {} THEN <<>> ELSE SubSeq(s, 1, Max(k))

strip(s, cs) == lstrip(rstrip(s, cs), cs)

\* s.strip() with no argument: does s hold a non-whitespace character
blank(s) == \A i \in 1..Len(s) : s[i] \in WHITESPACE

startswith(s, p) == Len(p) <= Len(s) /\ SubSeq(s, 1, Len(p)) = p

RECURSIVE replace(_, _, _)
replace(s, old, new) ==
    IF s = <<>> THEN <<>>
    ELSE IF startswith(s, old)
         THEN new \o replace(SubSeq(s, Len(old) + 1, Len(s)), old, new)
         ELSE <<Head(s)>> \o replace(Tail(s), old, new)

RECURSIVE split(_, _)
split(s, c) ==
    LET k == {i \in 1..Len(s) : s[i] = c}
    IN  IF k = {} THEN <<s>>
        ELSE <<SubSeq(s, 1, Min(k) - 1)>> \o split(SubSeq(s, Min(k) + 1, Len(s)), c)

RECURSIVE splitlines(_)
splitlines(s) ==
    IF s = <<>> THEN <<>>
    ELSE LET k == {i \in 1..Len(s) : s[i] \in LINE_BREAKS}
         IN  IF k = {} THEN <<s>>
             ELSE LET i == Min(k)
                      j == IF s[i] = "\r" /\ i < Len(s) /\ s[i + 1] = "\n"
                           THEN i + 1 ELSE i
                  IN  <<SubSeq(s, 1, i - 1)>> \o splitlines(SubSeq(s, j + 1, Len(s)))

RECURSIVE join(_, _)
join(sep, parts) ==
    IF parts = <<>> THEN <<>>
    ELSE IF Len(parts) = 1 THEN parts[1]
    ELSE parts[1] \o sep \o join(sep, Tail(parts))

\* "".join(parts)
concat(parts) == join(<<>>, parts)

\* " " * n
spaces(n) == [i \in 1..n |-> " "]

\* [f(x) for x in xs]
map(f(_), xs) == [i \in 1..Len(xs) |-> f(xs[i])]

RECURSIVE WS_RE_sub(_)
WS_RE_sub(s) ==
    IF s = <<>> THEN <<>>
    ELSE IF Head(s) \in WS_RE
         THEN <<" ">> \o WS_RE_sub(lstrip(Tail(s), WS_RE))
         ELSE <<Head(s)>> \o WS_RE_sub(Tail(s))

normalize_newlines(s) == replace(replace(s, <<"\r", "\n">>, <<"\n">>), <<"\r">>, <<"\n">>)

_collapse_ws(s) ==
    join(<<"\n">>, map(WS_RE_sub, split(normalize_newlines(s), "\n")))

_strip_blank_lines(lines) ==
    LET k == {i \in 1..Len(lines) : ~blank(lines[i])}
    IN  IF k = {} THEN <<>> ELSE SubSeq(lines, Min(k), Max(k))

_indent_lines(text, n) ==
    join(<<"\n">>,
         map(LAMBDA line : IF ~blank(line) THEN spaces(n) \o line ELSE line,
             splitlines(text)))

(***************************************************************************)
(* DOM read operations (BeautifulSoup)                                     *)
(***************************************************************************)
IsString(n) == n.name = "#text"
IsTag(n) == n.name # "#text"

\* node.get(k) or ""
get(n, k) == IF k \in DOMAIN n.attrs THEN n.attrs[k] ELSE <<>>
has_attr(n, k) == k \in DOMAIN n.attrs
\* node.get("class") or []
classes_of(n) == n.attrs.class

RECURSIVE descendants(_)
descendants(n) ==
    IF IsString(n) THEN <<>>
    ELSE concat([i \in 1..Len(n.children) |->
                    <<n.children[i]>> \o descendants(n.children[i])])

\* tag.find_all(names): every descendant element so named, in document order
find_all(n, names) ==
    SelectSeq(descendants(n), LAMBDA c : IsTag(c) /\ c.name \in names)

\* tag.find_all(names, recursive=False)
find_children(n, names) ==
    SelectSeq(n.children, LAMBDA c : IsTag(c) /\ c.name \in names)

\* tag.get_text(sep): the descendant strings joined by sep
get_text(n, sep) ==
    join(sep, map(LAMBDA c : c.text, SelectSeq(descendants(n), IsString)))

_is_all_whitespace_node(n) == IsString(n) /\ blank(n.text)

_unwrap_header_text(h) ==
    SelectSeq(h.children,
              LAMBDA c : ~(IsTag(c) /\ c.name = "a" /\ "headerlink" \in classes_of(c)))

(***************************************************************************)
(* Regular expressions of the source, matched case-insensitively           *)
(***************************************************************************)
UPPER == <<"A", "B", "C", "D", "E", "F", "G", "H", "I", "J", "K", "L", "M",
           "N", "O", "P", "Q", "R", "S", "T", "U", "V", "W", "X", "Y", "Z">>
LOWER == <<"a", "b", "c", "d", "e", "f", "g", "h", "i", "j", "k", "l", "m",
           "n", "o", "p", "q", "r", "s", "t", "u", "v", "w", "x", "y", "z">>
DIGITS == <<"0", "1", "2", "3", "4", "5", "6", "7", "8", "9">>

lower_char(c) ==
    IF \E i \in 1..Len(UPPER) : UPPER[i] = c
    THEN LOWER[CHOOSE i \in 1..Len(UPPER) : UPPER[i] = c]
    ELSE c

\* str.lower()
lower(s) == [i \in 1..Len(s) |-> lower_char(s[i])]

\* \w
word_char(c) ==
    \/ \E i \in 1..Len(LOWER) : LOWER[i] = lower_char(c)
    \/ \E i \in 1..Len(DIGITS) : DIGITS[i] = c
    \/ c = "_"

\* does the literal lit match s at position i, ignoring case
match_at(s, i, lit) ==
    /\ i + Len(lit) - 1 <= Len(s)
    /\ lower(SubSeq(s, i, i + Len(lit) - 1)) = lit

\* \s* from position i: the position of the first character it does not take
skip_ws(s, i) ==
    LET k == {j \in i..Len(s) : s[j] \notin WHITESPACE}
    IN  IF k = {} THEN Len(s) + 1 ELSE Min(k)

\* text-align\s*:\s*  matched at i: the position after it, or 0
align_prefix(s, i) ==
    IF ~match_at(s, i, <<"t", "e", "x", "t", "-", "a", "l", "i", "g", "n">>) THEN 0
    ELSE LET j == skip_ws(s, i + 10)
         IN  IF j <= Len(s) /\ s[j] = ":" THEN skip_ws(s, j + 1) ELSE 0

\* (left|center|right)\b  matched at k: the word, or <<>>
align_word(s, k) ==
    LET words == << <<"l", "e", "f", "t">>, <<"c", "e", "n", "t", "e", "r">>,
                    <<"r", "i", "g", "h", "t">> >>
        ok(w) == /\ match_at(s, k, w)
                 /\ (k + Len(w) > Len(s) \/ ~word_char(s[k + Len(w)]))
        hits == {i \in 1..3 : ok(words[i])}
    IN  IF k = 0 \/ hits = {} THEN <<>> ELSE words[Min(hits)]

\* ALIGN_STYLE_RE.search(style): group(1).lower(), or <<>> when there is no match
ALIGN_STYLE_RE(style) ==
    LET hits == {i \in 1..Len(style) : align_word(style, align_prefix(style, i)) # <<>>}
    IN  IF hits = {} THEN <<>> ELSE align_word(style, align_prefix(style, Min(hits)))

\* re.search(r"color\s*:\s*([^;]+)", style, re.I) at position i:
\* <<TRUE, group(1)>> or <<FALSE, <<>>>>
color_match_at(s, i) ==
    IF ~match_at(s, i, <<"c", "o", "l", "o", "r">>) THEN <<FALSE, <<>>>>
    ELSE LET j == skip_ws(s, i + 5)
         IN  IF ~(j <= Len(s) /\ s[j] = ":") THEN <<FALSE, <<>>>>
             ELSE LET k == skip_ws(s, j + 1)
                      semis == {m \in k..Len(s) : s[m] = ";"}
                      stop == IF semis = {} THEN Len(s) + 1 ELSE Min(semis)
                  IN  IF stop > k THEN <<TRUE, SubSeq(s, k, stop - 1)>>
                      \* \s* gives one whitespace character back to [^;]+
                      ELSE IF k > j + 1 THEN <<TRUE, <<s[k - 1]>> >>
                      ELSE <<FALSE, <<>>>>

\* color = m.group(1).strip() if m else ""   (lines 141-142)
color_of(style) ==
    LET hits == {i \in 1..Len(style) : color_match_at(style, i)[1]}
    IN  IF hits = {} THEN <<>> ELSE strip(color_match_at(style, Min(hits))[2], WHITESPACE)

_detect_cell_align(cell) ==
    IF ~IsTag(cell) THEN "None"
    ELSE LET m == ALIGN_STYLE_RE(get(cell, "style"))
             align_attr == lower(strip(get(cell, "align"), WHITESPACE))
             cls == classes_of(cell)
         IN  IF m # <<>> THEN (IF m = <<"l", "e", "f", "t">> THEN "left"
                               ELSE IF m = <<"r", "i", "g", "h", "t">> THEN "right"
                               ELSE "center")
             ELSE IF align_attr = <<"l", "e", "f", "t">> THEN "left"
             ELSE IF align_attr = <<"c", "e", "n", "t", "e", "r">> THEN "center"
             ELSE IF align_attr = <<"r", "i", "g", "h", "t">> THEN "right"
             ELSE IF "md-center" \in cls THEN "center"
             ELSE IF "md-right" \in cls THEN "right"
             ELSE "None"

(***************************************************************************)
(* Inline renderer                                                         *)
(***************************************************************************)
RECURSIVE _render_inlines(_, _)

_render_children_inlines(n, c) ==
    concat([i \in 1..Len(n.children) |-> _render_inlines(n.children[i], c)])

\* f"{open}{self._render_children_inlines(node, ctx).strip()}{close}"
wrap(open, n, c, close) ==
    open \o strip(_render_children_inlines(n, c), WHITESPACE) \o close

_render_inlines(n, c) ==
    IF IsString(n)
    THEN IF c.in_pre THEN n.text
         ELSE replace(_collapse_ws(n.text), <<"\n">>, <<" ">>)
    ELSE LET name == n.name
             classes == classes_of(n)
         IN
         IF name = "br" THEN <<"\n">>
         ELSE IF name = "a" /\ "headerlink" \in classes THEN <<>>
         ELSE IF name \in {"b", "strong"} THEN wrap(<<"*", "*">>, n, c, <<"*", "*">>)
         ELSE IF name \in {"i", "em"} THEN wrap(<<"*">>, n, c, <<"*">>)
         ELSE IF name \in {"s", "del"} THEN wrap(<<"~", "~">>, n, c, <<"~", "~">>)
         ELSE IF name = "mark" THEN wrap(<<"=", "=">>, n, c, <<"=", "=">>)
         ELSE IF name = "code" THEN wrap(<<BACKTICK>>, n, c, <<BACKTICK>>)
         ELSE IF name = "span" /\ "md-align" \in classes
              THEN IF c.in_heading THEN wrap(<<>>, n, c, <<>>)
                   ELSE IF "md-center" \in classes
                        THEN wrap(<<"-", ">", " ">>, n, c, <<" ", "<", "-">>)
                   ELSE IF "md-right" \in classes
                        THEN wrap(<<"-", ">", " ">>, n, c, <<" ", "-", ">">>)
                   ELSE wrap(<<>>, n, c, <<>>)
         ELSE IF name = "span" /\ "color-change" \in classes
              THEN LET color == color_of(get(n, "style"))
                   IN  IF color # <<>>
                       THEN wrap(<<"%">> \o color \o <<"%">>, n, c, <<"%", "%">>)
                       ELSE wrap(<<>>, n, c, <<>>)
         ELSE IF name = "span" /\ "spoiler" \in classes
              THEN wrap(<<"|", "|">>, n, c, <<"|", "|">>)
         ELSE IF name = "a"
              THEN LET href == get(n, "href")
                       text == strip(_render_children_inlines(n, c), WHITESPACE)
                   IN  IF text # <<>> /\ href # <<>> /\ text = href THEN href
                       ELSE IF text = <<>> THEN href
                       ELSE <<"[">> \o text \o <<"]", "(">> \o href \o <<")">>
         ELSE IF name = "img"
              THEN <<"!", "[">> \o get(n, "alt") \o <<"]", "(">> \o get(n, "src") \o <<")">>
         ELSE _render_children_inlines(n, c)

(***************************************************************************)
(* Render contexts (_Ctx, lines 12-17) and the contexts derived from one   *)
(***************************************************************************)
\* self._Ctx(heading_id_level=heading_id_level)   (line 40)
root_ctx(m) ==
    [in_pre |-> FALSE, list_depth |-> 0, in_heading |-> FALSE, heading_id_level |-> m]

\* hctx (lines 254-259)
heading_ctx(c) ==
    [in_pre |-> c.in_pre, list_depth |-> c.list_depth, in_heading |-> TRUE,
     heading_id_level |-> c.heading_id_level]

\* a mutation of item_ctx: heading_id_level is left to its default, a new dict
item_ctx_new_dict(c) ==
    [in_pre |-> FALSE, list_depth |-> c.list_depth, in_heading |-> FALSE,
     heading_id_level |-> [x \in {} |-> 0]]

\* the context _render_list gives each item (lines 325-330)
item_ctx(c) ==
    [in_pre |-> FALSE, list_depth |-> c.list_depth, in_heading |-> FALSE,
     heading_id_level |-> c.heading_id_level]

\* the context _render_list_item gives a nested list (lines 400-405)
nested_ctx(c) ==
    [in_pre |-> FALSE, list_depth |-> c.list_depth + 1, in_heading |-> FALSE,
     heading_id_level |-> c.heading_id_level]

(***************************************************************************)
(* Small pieces of the block renderer                                      *)
(***************************************************************************)
HEADINGS == <<"h1", "h2", "h3", "h4", "h5", "h6">>

\* int(name[1]) of a heading name
heading_level(name) == CHOOSE l \in 1..Len(HEADINGS) : HEADINGS[l] = name

RECURSIVE str_int(_)
\* str(n) for n >= 0
str_int(n) == IF n < 10 THEN <<DIGITS[n + 1]>> ELSE str_int(n \div 10) \o <<DIGITS[(n % 10) + 1]>>

SEP == <<"\n", "\n">>
FENCE == <<BACKTICK, BACKTICK, BACKTICK>>
TOC == <<"[", "T", "O", "C">>

\* html.unescape, for the character references listed here
ENTITIES ==
    << << <<"&", "l", "t", ";">>, <<"<">> >>,
       << <<"&", "g", "t", ";">>, <<">">> >>,
       << <<"&", "a", "m", "p", ";">>, <<"&">> >>,
       << <<"&", "#", "1", "0", ";">>, <<"\n">> >> >>

RECURSIVE unescape(_)
unescape(s) ==
    IF s = <<>> THEN <<>>
    ELSE LET hits == {i \in 1..Len(ENTITIES) : startswith(s, ENTITIES[i][1])}
         IN  IF hits = {} THEN <<Head(s)>> \o unescape(Tail(s))
             ELSE LET e == ENTITIES[Min(hits)]
                  IN  e[2] \o unescape(SubSeq(s, Len(e[1]) + 1, Len(s)))

\* token = "[TOC]" if lvl == 1 else f"[TOC{lvl}]"   (line 195)
toc_level_token(lvl) ==
    IF lvl = 1 THEN TOC \o <<"]">> ELSE TOC \o str_int(lvl) \o <<"]">>

\* the token of a div.toc (lines 187-195)
toc_token(n, c) ==
    LET links == SelectSeq(descendants(n),
                           LAMBDA a : IsTag(a) /\ a.name = "a" /\ has_attr(a, "href"))
    IN  IF links = <<>> THEN TOC \o <<"]">>
        ELSE LET href == get(links[1], "href")
             IN  IF ~startswith(href, <<"#">>) THEN TOC \o <<"]">>
                 ELSE LET hid == Tail(href)
                      IN  IF hid \in DOMAIN c.heading_id_level
                             /\ c.heading_id_level[hid] \in 1..6
                          THEN toc_level_token(c.heading_id_level[hid])
                          ELSE TOC \o <<"]">>

\* the body of a div.codeblock or pre between the fences
fenced(txt) == FENCE \o <<"\n">> \o rstrip(txt, WHITESPACE) \o <<"\n">> \o FENCE \o SEP

codeblock(n) ==
    LET clippy == SelectSeq(descendants(n),
                            LAMBDA x : IsTag(x) /\ "clippy" \in classes_of(x))
    IN  IF clippy # <<>> /\ has_attr(clippy[1], "value")
        THEN fenced(normalize_newlines(unescape(get(clippy[1], "value"))))
        ELSE fenced(get_text(n, <<"\n">>))

ADMONITION_KINDS ==
    << <<"note", <<"n", "o", "t", "e">> >>,
       <<"info", <<"i", "n", "f", "o">> >>,
       <<"warning", <<"w", "a", "r", "n", "i", "n", "g">> >>,
       <<"danger", <<"d", "a", "n", "g", "e", "r">> >>,
       <<"greentext", <<"g", "r", "e", "e", "n", "t", "e", "x", "t">> >> >>

\* lines 208-213
admonition_kind(classes) ==
    LET hits == {i \in 1..Len(ADMONITION_KINDS) : ADMONITION_KINDS[i][1] \in classes}
    IN  IF hits = {} THEN ADMONITION_KINDS[1][2] ELSE ADMONITION_KINDS[Min(hits)][2]

is_admonition_title(x) ==
    IsTag(x) /\ x.name = "p" /\ "admonition-title" \in classes_of(x)

is_align_span(x) == IsTag(x) /\ x.name = "span" /\ "md-align" \in classes_of(x)

\* aligned (lines 238-252)
heading_aligned(n) ==
    LET classes == classes_of(n)
        spans == SelectSeq(n.children, is_align_span)
    IN  IF "md-center" \in classes THEN "center"
        ELSE IF "md-right" \in classes THEN "right"
        ELSE IF spans = <<>> THEN "None"
        ELSE IF "md-center" \in classes_of(spans[1]) THEN "center"
        ELSE IF "md-right" \in classes_of(spans[1]) THEN "right"
        ELSE "None"

\* lines 263-266
align_wrap(aligned, text) ==
    IF aligned = "center" THEN <<"-", ">", " ">> \o text \o <<" ", "<", "-">>
    ELSE IF aligned = "right" THEN <<"-", ">", " ">> \o text \o <<" ", "-", ">">>
    ELSE text

heading(n, c) ==
    LET hctx == heading_ctx(c)
        kept == _unwrap_header_text(n)
        text == strip(concat([i \in 1..Len(kept) |-> _render_inlines(kept[i], hctx)]),
                      WHITESPACE)
    IN  [i \in 1..heading_level(n.name) |-> "#"] \o <<" ">>
            \o align_wrap(heading_aligned(n), text) \o SEP

\* span_aligns: node.find_all("span", class_=...)   (line 271)
span_aligns(n) == SelectSeq(descendants(n), is_align_span)

\* only_align (lines 272-279)
only_align(n) ==
    \A i \in 1..Len(n.children) :
        _is_all_whitespace_node(n.children[i]) \/ is_align_span(n.children[i])

\* lines (line 282)
paragraph_align_lines(n, c) ==
    map(LAMBDA x : strip(_render_inlines(x, c), WHITESPACE), span_aligns(n))

\* a mutation of paragraph: the text is not trimmed
paragraph_untrimmed(n, c) ==
    IF only_align(n) /\ span_aligns(n) # <<>>
    THEN rstrip(join(<<"\n">>, paragraph_align_lines(n, c)), WHITESPACE) \o SEP
    ELSE LET text == _render_children_inlines(n, c)
         IN  IF text # <<>> THEN text \o SEP ELSE <<>>

paragraph(n, c) ==
    IF only_align(n) /\ span_aligns(n) # <<>>
    THEN rstrip(join(<<"\n">>, paragraph_align_lines(n, c)), WHITESPACE) \o SEP
    ELSE LET text == strip(_render_children_inlines(n, c), WHITESPACE)
         IN  IF text # <<>> THEN text \o SEP ELSE <<>>

\* lines 290-292, from the rendered children
blockquote(inner) ==
    LET inner_lines == _strip_blank_lines(splitlines(strip(inner, {"\n"})))
    IN  join(<<"\n">>,
             map(LAMBDA ln : IF ~blank(ln) THEN <<">", " ">> \o ln ELSE <<">">>,
                 inner_lines)) \o SEP

\* lines 226-230, from body_parts
admonition(header, body_parts) ==
    LET body == strip(join(<<"\n">>, SelectSeq(body_parts, LAMBDA p : ~blank(p))),
                      WHITESPACE)
    IN  IF body = <<>> THEN header \o SEP
        ELSE header \o <<"\n">> \o _indent_lines(body, 4) \o SEP

\* header (lines 215-216, 227)
admonition_header(n, c) ==
    LET titles == SelectSeq(n.children, is_admonition_title)
        title == IF titles = <<>> THEN <<>>
                 ELSE strip(_render_children_inlines(titles[1], c), WHITESPACE)
    IN  <<"!", "!", "!", " ">> \o admonition_kind(classes_of(n))
            \o (IF title # <<>> THEN <<" ">> \o title ELSE <<>>)

(***************************************************************************)
(* Table renderer                                                          *)
(***************************************************************************)
\* lines 425-430
align_token(a) ==
    IF a = "center" THEN <<":", "-", "-", "-", ":">>
    ELSE IF a = "right" THEN <<"-", "-", "-", ":">>
    ELSE <<"-", "-", "-">>

\* "| " + " | ".join(vals) + " |"
table_row(vals) == <<"|", " ">> \o join(<<" ", "|", " ">>, vals) \o <<" ", "|">>

\* header_cells (line 419)
header_cells(tbl) == find_children(find_all(tbl, {"tr"})[1], {"th", "td"})

\* headers (line 420)
header_text(cell, c) == strip(_render_children_inlines(cell, c), WHITESPACE)

\* vals (line 438)
cell_text(cell, c) ==
    replace(strip(_render_children_inlines(cell, c), WHITESPACE), <<"\n">>, <<"\\", "n">>)

\* a mutation of aligns: no token for a cell without an alignment
aligns_no_default(cells) ==
    map(LAMBDA x : align_token(_detect_cell_align(x)),
        SelectSeq(cells, LAMBDA x : _detect_cell_align(x) \in {"center", "right"}))

\* aligns (lines 422-430)
aligns(cells) == map(LAMBDA x : align_token(_detect_cell_align(x)), cells)

\* out (lines 432-439), for a table with at least one row
table_out(tbl, c) ==
    LET rows == find_all(tbl, {"tr"})
        cells == header_cells(tbl)
    IN  << table_row(map(LAMBDA x : header_text(x, c), cells)),
           table_row(aligns(cells)) >>
        \o [r \in 1..(Len(rows) - 1) |->
               table_row(map(LAMBDA x : cell_text(x, c),
                             find_children(rows[r + 1], {"td", "th"})))]

_render_table(tbl, c) ==
    IF find_all(tbl, {"tr"}) = <<>> THEN <<>>
    ELSE join(<<"\n">>, table_out(tbl, c)) \o SEP

(***************************************************************************)
(* List renderer and block renderer                                        *)
(***************************************************************************)
RECURSIVE _render_block(_, _)
RECURSIVE _render_list(_, _)
RECURSIVE _render_list_item(_, _)
RECURSIVE item_paragraphs(_, _, _)
RECURSIVE add_nested(_, _, _)

\* the children _render_children_blocks renders (lines 168-170)
block_children(n) == SelectSeq(n.children, LAMBDA x : ~_is_all_whitespace_node(x))

_render_children_blocks(n, c) ==
    LET kids == block_children(n)
    IN  concat([i \in 1..Len(kids) |-> _render_block(kids[i], c)])

\* body_parts (lines 218-224)
admonition_body_parts(n, c) ==
    LET kids == SelectSeq(n.children,
                          LAMBDA x : ~is_admonition_title(x) /\ ~_is_all_whitespace_node(x))
    IN  [i \in 1..Len(kids) |-> rstrip(_render_block(kids[i], c), {"\n"})]

\* the branch of _render_block a node takes (lines 175-311)
dispatch(n) ==
    IF IsString(n) THEN "string"
    ELSE LET name == n.name
             classes == classes_of(n)
         IN  IF name = "div" /\ "toc" \in classes THEN "toc"
             ELSE IF name = "div" /\ "codeblock" \in classes THEN "codeblock"
             ELSE IF name = "div" /\ "admonition" \in classes THEN "admonition"
             ELSE IF name = "hr" THEN "hr"
             ELSE IF \E l \in 1..Len(HEADINGS) : HEADINGS[l] = name THEN "heading"
             ELSE IF name = "p" THEN "p"
             ELSE IF name = "blockquote" THEN "blockquote"
             ELSE IF name \in {"ul", "ol"} THEN "list"
             ELSE IF name = "div" /\ "ntable-wrapper" \in classes THEN "ntable-wrapper"
             ELSE IF name = "table" THEN "table"
             ELSE IF name = "pre" THEN "pre"
             ELSE IF name = "span" /\ "clear-floats" \in classes THEN "clear-floats"
             ELSE "children"

\* lines 175-178
string_block(n, c) ==
    IF blank(n.text) THEN <<>>
    ELSE strip(_render_inlines(n, c), WHITESPACE) \o SEP

_render_block(n, c) ==
    LET branch == dispatch(n)
    IN  IF branch = "string" THEN string_block(n, c)
        ELSE IF branch = "toc" THEN toc_token(n, c) \o SEP
        ELSE IF branch = "codeblock" THEN codeblock(n)
        ELSE IF branch = "admonition"
             THEN admonition(admonition_header(n, c), admonition_body_parts(n, c))
        ELSE IF branch = "hr" THEN <<"-", "-", "-">> \o SEP
        ELSE IF branch = "heading" THEN heading(n, c)
        ELSE IF branch = "p" THEN paragraph(n, c)
        ELSE IF branch = "blockquote" THEN blockquote(_render_children_blocks(n, c))
        ELSE IF branch = "list" THEN _render_list(n, c)
        ELSE IF branch = "ntable-wrapper"
             THEN LET tbl == find_all(n, {"table"})
                  IN  IF tbl # <<>> THEN _render_block(tbl[1], c) ELSE <<>>
        ELSE IF branch = "table" THEN _render_table(n, c)
        ELSE IF branch = "pre" THEN fenced(get_text(n, <<"\n">>))
        ELSE IF branch = "clear-floats" THEN <<"!", ";">> \o SEP
        ELSE _render_children_blocks(n, c)

\* flush_inline_as_para (lines 364-369): the paragraphs it appends
flush_inline_as_para(buffer_inline) ==
    LET s == strip(buffer_inline, WHITESPACE)
    IN  IF s # <<>> THEN <<s>> ELSE <<>>

\* paragraphs (lines 371-379)
item_paragraphs(content_nodes, buffer_inline, c) ==
    IF content_nodes = <<>> THEN flush_inline_as_para(buffer_inline)
    ELSE LET x == Head(content_nodes)
         IN  IF IsTag(x) /\ x.name = "p"
             THEN LET ptxt == strip(_render_children_inlines(x, c), WHITESPACE)
                  IN  flush_inline_as_para(buffer_inline)
                          \o (IF ptxt # <<>> THEN <<ptxt>> ELSE <<>>)
                          \o item_paragraphs(Tail(content_nodes), <<>>, c)
             ELSE item_paragraphs(Tail(content_nodes),
                                  buffer_inline \o _render_inlines(x, c), c)

\* lines 381-386
task_prefix(li, paragraphs) ==
    LET boxes == SelectSeq(descendants(li),
                           LAMBDA x : /\ IsTag(x) /\ x.name = "input"
                                      /\ has_attr(x, "type")
                                      /\ get(x, "type") =
                                            <<"c", "h", "e", "c", "k", "b", "o", "x">>)
        prefix == IF boxes # <<>> /\ has_attr(boxes[1], "checked")
                  THEN <<"[", "x", "]">> ELSE <<"[", " ", "]">>
    IN  IF "task-list" \in classes_of(li) /\ boxes # <<>>
        THEN IF paragraphs # <<>>
             THEN <<strip(prefix \o <<" ">> \o paragraphs[1], WHITESPACE)>>
                      \o Tail(paragraphs)
             ELSE <<prefix>>
        ELSE paragraphs

\* lines 388-389
paragraphs_or_empty(paragraphs) ==
    IF paragraphs = <<>> THEN << <<>> >> ELSE paragraphs

\* lines (lines 391-395)
paragraph_lines(paragraphs) ==
    concat([pi \in 1..Len(paragraphs) |->
               (IF pi > 1 THEN << <<>> >> ELSE <<>>) \o splitlines(paragraphs[pi])])

\* lines 397-410
add_nested(lines, nested_lists, c) ==
    IF nested_lists = <<>> THEN lines
    ELSE LET nested == rstrip(_render_list(Head(nested_lists), nested_ctx(c)), {"\n"})
             sep == IF lines # <<>> /\ lines[Len(lines)] # <<>> THEN << <<>> >> ELSE <<>>
         IN  add_nested(IF nested # <<>> THEN lines \o sep \o splitlines(nested) ELSE lines,
                        Tail(nested_lists), c)

_render_list_item(li, c) ==
    LET kids == SelectSeq(li.children, LAMBDA x : ~_is_all_whitespace_node(x))
        is_list(x) == IsTag(x) /\ x.name \in {"ul", "ol"}
        nested_lists == SelectSeq(kids, is_list)
        content_nodes == SelectSeq(kids, LAMBDA x : ~is_list(x))
        paragraphs ==
            paragraphs_or_empty(task_prefix(li, item_paragraphs(content_nodes, <<>>, c)))
    IN  add_nested(paragraph_lines(paragraphs), nested_lists, c)

\* marker (line 322)
marker(ordered, idx) == IF ordered THEN str_int(idx + 1) \o <<".">> ELSE <<"-">>

\* the lines one item adds to the list (lines 332-341)
item_output(base_indent, mark, item_lines) ==
    IF item_lines = <<>> THEN <<>>
    ELSE <<spaces(base_indent) \o mark \o <<" ">> \o item_lines[1]>>
         \o [k \in 1..(Len(item_lines) - 1) |->
                IF item_lines[k + 1] = <<>> THEN <<>>
                ELSE spaces(base_indent + 2) \o item_lines[k + 1]]

\* lines (lines 318-341)
list_lines(list_tag, c) ==
    LET li_tags == find_children(list_tag, {"li"})
    IN  concat([i \in 1..Len(li_tags) |->
                   item_output(4 * c.list_depth,
                               marker(list_tag.name = "ol", i - 1),
                               _render_list_item(li_tags[i], item_ctx(c)))])

_render_list(list_tag, c) ==
    rstrip(join(<<"\n">>, list_lines(list_tag, c)), WHITESPACE) \o SEP

(***************************************************************************)
(* Document driver (archive, lines 19-41)                                  *)
(***************************************************************************)
\* a mutation of record_heading: an id already in the dict keeps its level
record_heading_first_wins(m, h) ==
    LET hid == get(h, "id")
    IN  IF hid # <<>> /\ hid \notin DOMAIN m
        THEN [x \in DOMAIN m \cup {hid} |-> IF x = hid THEN heading_level(h.name) ELSE m[x]]
        ELSE m

\* lines 33-38: the dict m after the loop body has run for heading h
record_heading(m, h) ==
    LET hid == get(h, "id")
    IN  IF hid # <<>>
        THEN [x \in DOMAIN m \cup {hid} |-> IF x = hid THEN heading_level(h.name) ELSE m[x]]
        ELSE m

\* article.find_all(re.compile(r"^h[1-6]$", re.I))   (line 32)
all_headings(article) == find_all(article, {"h1", "h2", "h3", "h4", "h5", "h6"})

\* a dict with no entries
EmptyDict == [x \in {} |-> 0]

\* a mutation of collapse_newlines: the newline runs are left as they are
collapse_nothing(s) == s

RECURSIVE collapse_newlines(_)
\* re.sub(r"\n{3,}", "\n\n", s)
collapse_newlines(s) ==
    LET starts == {i \in 1..(Len(s) - 2) :
                      s[i] = "\n" /\ s[i + 1] = "\n" /\ s[i + 2] = "\n"}
    IN  IF starts = {} THEN s
        ELSE LET i == Min(starts)
                 rest == SubSeq(s, i, Len(s))
                 run == Len(rest) - Len(lstrip(rest, {"\n"}))
             IN  SubSeq(s, 1, i - 1) \o <<"\n", "\n">>
                     \o collapse_newlines(SubSeq(s, i + run, Len(s)))

\* a mutation of normalize: the result is not trimmed
normalize_untrimmed(s) == collapse_newlines(s) \o <<"\n">>

\* line 41
normalize(s) == strip(collapse_newlines(s), WHITESPACE) \o <<"\n">>

(***************************************************************************)
(* Input documents: constructors of DOM nodes                              *)
(***************************************************************************)
\* a NavigableString
T(s) == [name |-> "#text", text |-> s]
\* a Tag with a class attribute only
E(name, classes, children) ==
    [name |-> name, attrs |-> [class |-> classes], children |-> children]
\* a Tag with the attributes attrs (class among them)
EA(name, attrs, children) == [name |-> name, attrs |-> attrs, children |-> children]

\* strings
SeqsUpTo(S, n) == UNION {[1..k -> S] : k \in 0..n}

BR == E("br", {}, <<>>)
P(children) == E("p", {}, children)
LI(children) == E("li", {}, children)
ALIGN(classes, children) == E("span", {"md-align"} \cup classes, children)

(***************************************************************************)
(* SpecNorm: the final step of archive (line 41) on its own, applied to a  *)
(* string and then to its own result                                       *)
(***************************************************************************)
MaxLen == 6

InitNorm ==
    /\ pc = "raw"
    /\ input \in SeqsUpTo({"\n", " ", "a"}, MaxLen)
    /\ ctx = root_ctx(EmptyDict)
    /\ heading_id_level = EmptyDict
    /\ scanned = 0
    /\ stack = <<>>
    /\ raw = <<>>
    /\ result = <<>>

NormalizeOnce ==
    /\ pc = "raw"
    /\ raw' = normalize(input)
    /\ pc' = "once"
    /\ UNCHANGED <<input, ctx, heading_id_level, scanned, stack, result>>

NormalizeTwice ==
    /\ pc = "once"
    /\ result' = normalize(raw)
    /\ pc' = "twice"
    /\ UNCHANGED <<input, ctx, heading_id_level, scanned, stack, raw>>

NextNorm == NormalizeOnce \/ NormalizeTwice

SpecNorm == InitNorm /\ [][NextNorm]_vars

\* C4: the final step of archive (collapse the newline runs, trim, append a
\* newline) is idempotent: applied to its own result it returns that result.
C4_NormalizeIdempotent == pc = "twice" => result = raw

\* the step collapsed a newline run between two characters and trimmed both ends
C4_Witness ==
    /\ pc = "twice"
    /\ collapse_newlines(input) # input
    /\ strip(input, WHITESPACE) # input
    /\ raw = <<"a", "\n", "\n", "a", "\n">>

(***************************************************************************)
(* SpecTable: _render_table on a table                                     *)
(***************************************************************************)
MaxCells == 2
MaxRows == 3

TEXT_ALIGN_RIGHT ==
    <<"T", "e", "x", "t", "-", "a", "l", "i", "g", "n", " ", ":", " ",
      "R", "I", "G", "H", "T", ";">>

CellContents == { <<>>, <<T(<<"a">>)>>, <<T(<<"a">>), BR, T(<<"b">>)>> }

HeaderAttrs ==
    { [class |-> {}],
      [class |-> {}, style |-> TEXT_ALIGN_RIGHT],
      [class |-> {}, align |-> <<"c", "e", "n", "t", "e", "r">>],
      [class |-> {"md-right"}] }

\* a row of w equal cells
Row(name, attrs, content, w) ==
    E("tr", {}, [i \in 1..w |-> EA(name, attrs, content)])

Tables ==
    {E("table", {}, <<>>)} \cup
    { E("table", {}, IF tbody THEN <<E("tbody", {}, rows)>> ELSE rows) :
        tbody \in BOOLEAN,
        rows \in { <<Row("th", ha, hc, hw)>>
                       \o [r \in 1..Len(ws) |-> Row("td", [class |-> {}], dc, ws[r])] :
                     ha \in HeaderAttrs, hc \in CellContents, hw \in 0..MaxCells,
                     dc \in CellContents, ws \in SeqsUpTo(0..MaxCells, MaxRows - 1) } }

InitTable ==
    /\ pc = "call"
    /\ input \in Tables
    /\ ctx = root_ctx(EmptyDict)
    /\ heading_id_level = EmptyDict
    /\ scanned = 0
    /\ stack = <<>>
    /\ raw = <<>>
    /\ result = <<>>

RenderTable ==
    /\ pc = "call"
    /\ raw' = _render_table(input, ctx)
    /\ pc' = "returned"
    /\ UNCHANGED <<input, ctx, heading_id_level, scanned, stack, result>>

NextTable == RenderTable

SpecTable == InitTable /\ [][NextTable]_vars

\* the rows of the table under check, and the lines of the fragment returned
TableRows == find_all(input, {"tr"})
TableLines == split(SubSeq(raw, 1, Len(raw) - 2), "\n")
\* the line of row r >= 2, and the separator line before the line of row 2:
\* a data row holds no newline, so the data rows are the last lines
RowLine(r) == TableLines[Len(TableLines) - Len(TableRows) + r]
SeparatorLine == RowLine(1)
\* the number of pipe-delimited cells of a line
CellsIn(line) == Cardinality({i \in 1..Len(line) : line[i] = "|"}) - 1
\* the number of cells of a row of the DOM
DomCells(row) == Len(SelectSeq(row.children, LAMBDA x : IsTag(x) /\ x.name \in {"th", "td"}))
AtLeastOne(n) == IF n = 0 THEN 1 ELSE n

C8_OneLinePerRow ==
    (pc = "returned" /\ TableRows # <<>>) =>
        /\ SubSeq(raw, Len(raw) - 1, Len(raw)) = SEP
        /\ Len(TableLines) = Len(TableRows) + 1
        /\ \A i \in 1..Len(TableLines) : TableLines[i] # <<>>

(***************************************************************************)
(* SpecBlock: _render_block on one node                                    *)
(***************************************************************************)
MaxKids == 2

A == T(<<"a">>)
B == T(<<"b">>)

ClippyValue == <<"a", "&", "l", "t", ";", "\r", "\n", "b", "&", "#", "1", "0", ";">>

\* nodes of every branch that renders no child as a block
LeafBlocks ==
    { A, T(<<" ", "\n">>), T(<<" ", "a", "\t", "b", "\n">>),
      P(<<A>>), P(<<>>), P(<<A, BR>>), P(<<T(<<" ">>), E("b", {}, <<A>>), BR, B>>),
      P(<<ALIGN({"md-center"}, <<A>>)>>),
      P(<<ALIGN({"md-center"}, <<A, ALIGN({"md-right"}, <<B>>)>>)>>),
      P(<<ALIGN({}, <<A>>), T(<<" ">>), ALIGN({"md-right"}, <<B>>)>>),
      P(<<ALIGN({}, <<>>)>>),
      E("hr", {}, <<>>),
      E("h2", {}, <<A>>), E("h3", {"md-right"}, <<>>),
      E("ul", {}, <<>>), E("ol", {}, <<LI(<<A>>), LI(<<>>)>>),
      E("pre", {}, <<E("code", {}, <<T(<<"a", "\n", " ", "b", "\n">>)>>)>>),
      E("div", {"toc"}, <<>>),
      E("div", {"codeblock"}, <<EA("span", [class |-> {"clippy"}, value |-> ClippyValue], <<>>)>>),
      E("div", {"codeblock"}, <<E("pre", {}, <<A>>), T(<<"\n">>)>>),
      E("span", {"clear-floats"}, <<>>),
      E("table", {}, <<>>), E("table", {}, <<E("tr", {}, <<E("td", {}, <<A>>)>>)>>),
      E("div", {"ntable-wrapper"}, <<>>),
      E("div", {"ntable-wrapper"}, <<E("table", {}, <<E("tr", {}, <<E("td", {}, <<A>>)>>)>>)>>) }

\* the children given to a container
Kids ==
    { A, T(<<" ">>), P(<<A>>), P(<<>>), P(<<ALIGN({}, <<>>)>>), E("hr", {}, <<>>),
      E("ul", {}, <<>>), E("blockquote", {}, <<>>), E("div", {}, <<P(<<B>>), E("ol", {}, <<>>)>>) }

Containers ==
    { E(k[1], k[2], kids) :
        k \in { <<"div", {}>>, <<"section", {}>>, <<"blockquote", {}>>,
                <<"div", {"admonition", "danger", "info"}>> },
        kids \in SeqsUpTo(Kids, MaxKids) }
    \cup { E("div", {"admonition"}, <<E("p", {"admonition-title"}, <<A, BR, B>>)>> \o kids) :
             kids \in SeqsUpTo(Kids, 1) }

BlockContexts ==
    { root_ctx(EmptyDict),
      [root_ctx(EmptyDict) EXCEPT !.in_pre = TRUE],
      [root_ctx(EmptyDict) EXCEPT !.in_heading = TRUE, !.list_depth = 1] }

InitBlock ==
    /\ pc = "call"
    /\ input \in LeafBlocks \cup Containers
    /\ ctx \in BlockContexts
    /\ heading_id_level = EmptyDict
    /\ scanned = 0
    /\ stack = <<>>
    /\ raw = <<>>
    /\ result = <<>>

RenderBlock ==
    /\ pc = "call"
    /\ raw' = _render_block(input, ctx)
    /\ pc' = "returned"
    /\ UNCHANGED <<input, ctx, heading_id_level, scanned, stack, result>>

NextBlock == RenderBlock

SpecBlock == InitBlock /\ [][NextBlock]_vars

EndsWithSep(s) == Len(s) >= 2 /\ SubSeq(s, Len(s) - 1, Len(s)) = SEP
EndsInExactlyTwoNewlines(s) == EndsWithSep(s) /\ (Len(s) = 2 \/ s[Len(s) - 2] # "\n")

\* C5 as stated: the fragment _render_block returns is empty or ends in exactly
\* two newlines, in every branch.
C5_ExactlyTwoNewlines ==
    pc = "returned" => (raw = <<>> \/ EndsInExactlyTwoNewlines(raw))

\* C5 amended: the fragment is empty or ends in two newlines; it ends in
\* exactly two in every branch but the pass-through one, whose fragment is the
\* concatenation of its children's and may end in more.
C5_SeparatorAtEnd ==
    pc = "returned" =>
        \/ raw = <<>>
        \/ /\ EndsWithSep(raw)
           /\ dispatch(input) # "children" => EndsInExactlyTwoNewlines(raw)

\* a pass-through element returned text followed by more than two newlines
C5_Witness ==
    /\ pc = "returned"
    /\ dispatch(input) = "children"
    /\ Len(raw) > 2 * Len(SEP)
    /\ EndsWithSep(raw)
    /\ ~EndsInExactlyTwoNewlines(raw)

\* C9: a paragraph whose non-blank children are all alignment spans renders one
\* entry per child span, in order, each the span's trimmed inline rendering,
\* joined by newlines and followed by the block separator.
C9_OneEntryPerChildSpan ==
    (/\ pc = "returned"
     /\ dispatch(input) = "p"
     /\ only_align(input)
     /\ SelectSeq(input.children, is_align_span) # <<>>) =>
        raw = join(<<"\n">>,
                   map(LAMBDA x : strip(_render_inlines(x, ctx), WHITESPACE),
                       SelectSeq(input.children, is_align_span))) \o SEP

(***************************************************************************)
(* SpecList: _render_list on an outermost list                             *)
(***************************************************************************)
MaxItems == 2
MaxDepth == 2

\* the text of an item of a list at depth d, and of its continuation line
ItemText(d) == <<"a", "b", "c", "d", "e">>[d + 1]
MoreText(d) == <<"v", "w", "x", "y", "z">>[d + 1]

Contents(d) ==
    { <<T(<<ItemText(d)>>)>>,
      <<T(<<ItemText(d)>>), BR, T(<<MoreText(d)>>)>> }

TopContents ==
    Contents(0) \cup { <<P(<<T(<<ItemText(0)>>)>>), P(<<T(<<MoreText(0)>>)>>)>> }

RECURSIVE ListsAt(_)
\* the lists nested at depth d >= 1: of at most one item
ListsAt(d) ==
    { E(k, {}, items) :
        k \in (IF d = 1 THEN {"ul", "ol"} ELSE {"ul"}),
        items \in {<<>>} \cup
                  { <<LI(c \o n)>> :
                      c \in Contents(d),
                      n \in {<<>>} \cup (IF d < MaxDepth
                                         THEN {<<l>> : l \in ListsAt(d + 1)}
                                         ELSE {}) } }

\* the items of the outermost list: with content, or empty
TopItems ==
    {LI(<<>>)} \cup
    { LI(c \o n) : c \in TopContents, n \in {<<>>} \cup {<<l>> : l \in ListsAt(1)} }

TopLists == { E(k, {}, items) : k \in {"ul", "ol"}, items \in SeqsUpTo(TopItems, MaxItems) }

InitList ==
    /\ pc = "call"
    /\ input \in TopLists
    /\ ctx = root_ctx(EmptyDict)
    /\ heading_id_level = EmptyDict
    /\ scanned = 0
    /\ stack = <<>>
    /\ raw = <<>>
    /\ result = <<>>

RenderList ==
    /\ pc = "call"
    /\ raw' = _render_list(input, ctx)
    /\ pc' = "returned"
    /\ UNCHANGED <<input, ctx, heading_id_level, scanned, stack, result>>

NextList == RenderList

SpecList == InitList /\ [][NextList]_vars
\* the lines of the fragment returned for the list under check
ListLines == split(SubSeq(raw, 1, Len(raw) - 2), "\n")
Indent(line) == Len(line) - Len(lstrip(line, {" "}))
Body(line) == lstrip(line, {" "})
\* is body the marker line of an item of a list at depth d
IsMarkerLine(body, d) ==
    \E ordered \in BOOLEAN, idx \in 0..MaxItems :
        body = marker(ordered, idx) \o <<" ", ItemText(d)>>
\* is body a continuation line of an item of a list at depth d
IsMoreLine(body, d) == body = <<MoreText(d)>>

\* C2: in the text of the outermost list, the marker line of an item of a list
\* at depth d starts at 4*d spaces (so a list nested in an item of depth d has
\* its markers at 4*(d+1)) and a non-blank continuation line at 4*d + 2.
C2_IndentByDepth ==
    pc = "returned" =>
        \A i \in 1..Len(ListLines), d \in 0..MaxDepth :
            /\ IsMarkerLine(Body(ListLines[i]), d) => Indent(ListLines[i]) = 4 * d
            /\ IsMoreLine(Body(ListLines[i]), d) => Indent(ListLines[i]) = 4 * d + 2

\* the marker lines of the direct items: the lines that start in column 0
TopMarkerLines == SelectSeq(ListLines, LAMBDA l : l # <<>> /\ Head(l) # " ")

\* C7: the list emits one marker line for every direct item, in order, and the
\* k-th marker of an ordered list is k.
C7_OneMarkerPerItem ==
    pc = "returned" =>
        /\ Len(TopMarkerLines) = Len(find_children(input, {"li"}))
        /\ input.name = "ol" =>
               \A k \in 1..Len(TopMarkerLines) :
                   startswith(TopMarkerLines[k], str_int(k) \o <<".">>)

(***************************************************************************)
(* The calls each render operation makes, in order, with their contexts    *)
(***************************************************************************)
call(fn, n, c) == [fn |-> fn, node |-> n, ctx |-> c]
call_each(fn, nodes, c) == [i \in 1..Len(nodes) |-> call(fn, nodes[i], c)]

\* _render_block (lines 174-311)
block_callees(n, c) ==
    LET branch == dispatch(n)
    IN  IF branch = "string"
        THEN IF blank(n.text) THEN <<>> ELSE <<call("_render_inlines", n, c)>>
        ELSE IF branch = "admonition"
             THEN LET titles == SelectSeq(n.children, is_admonition_title)
                      kids == SelectSeq(n.children,
                                  LAMBDA x : ~is_admonition_title(x)
                                             /\ ~_is_all_whitespace_node(x))
                  IN  call_each("_render_children_inlines",
                                SubSeq(titles, 1, IF titles = <<>> THEN 0 ELSE 1), c)
                          \o call_each("_render_block", kids, c)
        ELSE IF branch = "heading"
             THEN call_each("_render_inlines", _unwrap_header_text(n), heading_ctx(c))
        ELSE IF branch = "p"
             THEN IF only_align(n) /\ span_aligns(n) # <<>>
                  THEN call_each("_render_inlines", span_aligns(n), c)
                  ELSE <<call("_render_children_inlines", n, c)>>
        ELSE IF branch \in {"blockquote", "children"}
             THEN <<call("_render_children_blocks", n, c)>>
        ELSE IF branch = "list" THEN <<call("_render_list", n, c)>>
        ELSE IF branch = "ntable-wrapper"
             THEN LET tbl == find_all(n, {"table"})
                  IN  call_each("_render_block", SubSeq(tbl, 1, IF tbl = <<>> THEN 0 ELSE 1), c)
        ELSE IF branch = "table" THEN <<call("_render_table", n, c)>>
        ELSE <<>>

\* _render_inlines (lines 99-164)
inline_callees(n, c) ==
    IF IsString(n) THEN <<>>
    ELSE IF n.name \in {"br", "img"} THEN <<>>
    ELSE IF n.name = "a" /\ "headerlink" \in classes_of(n) THEN <<>>
    ELSE <<call("_render_children_inlines", n, c)>>

\* _render_list_item (lines 345-412)
item_callees(li, c) ==
    LET kids == SelectSeq(li.children, LAMBDA x : ~_is_all_whitespace_node(x))
        is_list(x) == IsTag(x) /\ x.name \in {"ul", "ol"}
        content_nodes == SelectSeq(kids, LAMBDA x : ~is_list(x))
    IN  [i \in 1..Len(content_nodes) |->
            IF IsTag(content_nodes[i]) /\ content_nodes[i].name = "p"
            THEN call("_render_children_inlines", content_nodes[i], c)
            ELSE call("_render_inlines", content_nodes[i], c)]
        \o call_each("_render_list", SelectSeq(kids, is_list), nested_ctx(c))

\* _render_table (lines 414-441)
table_callees(tbl, c) ==
    LET rows == find_all(tbl, {"tr"})
    IN  IF rows = <<>> THEN <<>>
        ELSE call_each("_render_children_inlines", header_cells(tbl), c)
             \o concat([r \in 1..(Len(rows) - 1) |->
                           call_each("_render_children_inlines",
                                     find_children(rows[r + 1], {"td", "th"}), c)])

callees(fn, n, c) ==
    IF fn = "_render_children_blocks" THEN call_each("_render_block", block_children(n), c)
    ELSE IF fn = "_render_block" THEN block_callees(n, c)
    ELSE IF fn = "_render_list"
         THEN call_each("_render_list_item", find_children(n, {"li"}), item_ctx(c))
    ELSE IF fn = "_render_list_item" THEN item_callees(n, c)
    ELSE IF fn = "_render_table" THEN table_callees(n, c)
    ELSE IF fn = "_render_children_inlines" THEN call_each("_render_inlines", n.children, c)
    ELSE inline_callees(n, c)

(***************************************************************************)
(* SpecArchive: archive (lines 31-41) on an article: the scan of the       *)
(* headings, the render pass call by call, the final step                  *)
(***************************************************************************)
MaxBlocks == 3

WithId(name, id) == EA(name, [class |-> {}, id |-> id], <<A>>)
Link(href) == EA("a", [class |-> {}, href |-> href], <<A>>)
Toc(children) == E("div", {"toc"}, children)

Blocks ==
    { WithId("h1", <<"x">>),
      WithId("h2", <<"x">>),
      E("div", {}, <<WithId("h3", <<"x">>), WithId("h4", <<>>), E("h5", {}, <<B>>)>>),
      E("section", {},
        << Toc(<<E("ul", {}, <<LI(<<Link(<<"#", "x">>)>>), LI(<<Link(<<"#", "y">>)>>)>>)>>),
           Toc(<<Link(<<"#", "y">>), Link(<<"#", "x">>)>>),
           Toc(<<E("a", {}, <<A>>), Link(<<"x">>), Link(<<"#", "x">>)>>),
           Toc(<<Link(<<"#">>)>>),
           Toc(<<>>) >>),
      E("ul", {}, <<LI(<<A, E("ol", {}, <<LI(<<B>>)>>)>>)>>),
      E("ul", {}, <<>>) }

Articles == { E("article", {}, blocks) : blocks \in SeqsUpTo(Blocks, MaxBlocks) }

frame(k) == [fn |-> k.fn, node |-> k.node, ctx |-> k.ctx, next |-> 1, passed |-> {}]

InitArchive ==
    /\ pc = "scan"
    /\ input \in Articles
    /\ ctx = root_ctx(EmptyDict)
    /\ heading_id_level = EmptyDict
    /\ scanned = 0
    /\ stack = <<>>
    /\ raw = <<>>
    /\ result = <<>>

\* one turn of the loop of lines 32-38
ScanHeading ==
    /\ pc = "scan"
    /\ scanned < Len(all_headings(input))
    /\ heading_id_level' = record_heading(heading_id_level, all_headings(input)[scanned + 1])
    /\ scanned' = scanned + 1
    /\ UNCHANGED <<pc, input, ctx, stack, raw, result>>

\* line 40: the context is made and _render_children_blocks is called
BeginRender ==
    /\ pc = "scan"
    /\ scanned = Len(all_headings(input))
    /\ ctx' = root_ctx(heading_id_level)
    /\ stack' = <<frame(call("_render_children_blocks", input, root_ctx(heading_id_level)))>>
    /\ pc' = "render"
    /\ UNCHANGED <<input, heading_id_level, scanned, raw, result>>

\* the operation on top of the stack makes its next call
Call ==
    /\ pc = "render"
    /\ LET top == stack[Len(stack)]
           todo == callees(top.fn, top.node, top.ctx)
       IN  /\ top.next <= Len(todo)
           /\ stack' = Append([stack EXCEPT ![Len(stack)].next = top.next + 1,
                                            ![Len(stack)].passed =
                                                top.passed \cup
                                                {<<todo[top.next].fn, todo[top.next].ctx>>}],
                              frame(todo[top.next]))
    /\ UNCHANGED <<pc, input, ctx, heading_id_level, scanned, raw, result>>

\* the operation on top of the stack returns to its caller
Return ==
    /\ pc = "render"
    /\ Len(stack) > 1
    /\ LET top == stack[Len(stack)]
       IN  top.next > Len(callees(top.fn, top.node, top.ctx))
    /\ stack' = SubSeq(stack, 1, Len(stack) - 1)
    /\ UNCHANGED <<pc, input, ctx, heading_id_level, scanned, raw, result>>

\* line 40: _render_children_blocks returns raw to archive
EndRender ==
    /\ pc = "render"
    /\ Len(stack) = 1
    /\ stack[1].next > Len(callees(stack[1].fn, stack[1].node, stack[1].ctx))
    /\ raw' = _render_children_blocks(input, ctx)
    /\ stack' = <<>>
    /\ pc' = "normalize"
    /\ UNCHANGED <<input, ctx, heading_id_level, scanned, result>>

\* line 41
Normalize ==
    /\ pc = "normalize"
    /\ result' = normalize(raw)
    /\ pc' = "done"
    /\ UNCHANGED <<input, ctx, heading_id_level, scanned, stack, raw>>

NextArchive == ScanHeading \/ BeginRender \/ Call \/ Return \/ EndRender \/ Normalize

SpecArchive == InitArchive /\ [][NextArchive]_vars

NoThreeNewlines(s) ==
    \A i \in 1..(Len(s) - 2) : ~(s[i] = "\n" /\ s[i + 1] = "\n" /\ s[i + 2] = "\n")

\* C1: the string archive returns never contains three or more consecutive
\* newline characters.
C1_NoThreeNewlines == pc = "done" => NoThreeNewlines(result)

\* archive has returned for an article whose rendered text had a run of three
\* or more newlines between two blocks
C1_Witness ==
    /\ pc = "done"
    /\ ~NoThreeNewlines(strip(raw, WHITESPACE))
    /\ Len(result) > Len(SEP)

\* the calls of _render_block on a table-of-contents container now on the stack
TocCalls ==
    { i \in DOMAIN stack : stack[i].fn = "_render_block" /\ dispatch(stack[i].node) = "toc" }

\* the first link of a container that carries an href, as a sequence of 0 or 1
FirstLink(toc) ==
    LET links == SelectSeq(find_all(toc, {"a"}), LAMBDA a : has_attr(a, "href"))
    IN  SubSeq(links, 1, IF links = <<>> THEN 0 ELSE 1)

\* the positions, in document order, of the headings that carry identifier hid
Carriers(hid) ==
    { k \in DOMAIN all_headings(input) : hid # <<>> /\ get(all_headings(input)[k], "id") = hid }

LastLevel(hid) ==
    LET k == CHOOSE k \in Carriers(hid) : \A j \in Carriers(hid) : j <= k
    IN  heading_level(all_headings(input)[k].name)

Resolvable(toc) ==
    /\ FirstLink(toc) # <<>>
    /\ startswith(get(FirstLink(toc)[1], "href"), <<"#">>)
    /\ Carriers(Tail(get(FirstLink(toc)[1], "href"))) # {}

TargetLevel(toc) == LastLevel(Tail(get(FirstLink(toc)[1], "href")))

\* C6 as stated: a container whose first link resolves emits [TOCn], n the level
\* of the last heading carrying the identifier; any other container emits [TOC].
C6_TokenCarriesLevel ==
    \A i \in TocCalls :
        _render_block(stack[i].node, stack[i].ctx) =
            (IF Resolvable(stack[i].node)
             THEN TOC \o str_int(TargetLevel(stack[i].node)) \o <<"]">>
             ELSE TOC \o <<"]">>) \o SEP

\* C6: a container whose first link resolves to a level n of 2 to 6, n being the
\* level of the last heading in document order that carries the identifier,
\* emits [TOCn]; a container whose first link resolves to level 1, or does not
\* resolve, emits [TOC].
C6_TokenCarriesLevelAboveOne ==
    \A i \in TocCalls :
        _render_block(stack[i].node, stack[i].ctx) =
            (IF Resolvable(stack[i].node) /\ TargetLevel(stack[i].node) > 1
             THEN TOC \o str_int(TargetLevel(stack[i].node)) \o <<"]">>
             ELSE TOC \o <<"]">>) \o SEP

\* a container is rendered whose identifier is carried by an h2 and, later in
\* the document, by an h3
C6_Witness ==
    \E i \in TocCalls :
        /\ Resolvable(stack[i].node)
        /\ Cardinality(Carriers(Tail(get(FirstLink(stack[i].node)[1], "href")))) > 1
        /\ all_headings(input)[1].name = "h2"
        /\ TargetLevel(stack[i].node) = 3
        /\ _render_block(stack[i].node, stack[i].ctx) = TOC \o <<"3", "]">> \o SEP

\* C10 as stated: the map is built once, before the first render call, and no
\* render operation changes it; every context refers to that map; the context
\* of a caller is as it was when the caller was entered; all the calls made
\* for the children of one node pass the same context value.
C10_SiblingsShareContext ==
    /\ pc = "scan" => stack = <<>> /\ raw = <<>>
    /\ pc # "scan" => /\ scanned = Len(all_headings(input))
                      /\ heading_id_level = ctx.heading_id_level
    /\ \A i \in DOMAIN stack :
           /\ stack[i].ctx.heading_id_level = heading_id_level
           /\ IF i = 1 THEN stack[i].ctx = ctx
                       ELSE <<stack[i].fn, stack[i].ctx>> \in stack[i - 1].passed
           /\ \A p, q \in stack[i].passed : p[2] = q[2]

\* C10: the map is built once, before the first render call, and no render
\* operation changes it; every context refers to that map; the context of a
\* caller is as it was when the caller was entered; all the calls one node
\* makes to the same render operation pass the same context value (a list item
\* passes its own context for its content and one a level deeper for its
\* nested lists).
C10_MapFixedContextsDerived ==
    /\ pc = "scan" => stack = <<>> /\ raw = <<>>
    /\ pc # "scan" => /\ scanned = Len(all_headings(input))
                      /\ heading_id_level = ctx.heading_id_level
    /\ \A i \in DOMAIN stack :
           /\ stack[i].ctx.heading_id_level = heading_id_level
           /\ IF i = 1 THEN stack[i].ctx = ctx
                       ELSE <<stack[i].fn, stack[i].ctx>> \in stack[i - 1].passed
           /\ \A p, q \in stack[i].passed : p[1] = q[1] => p[2] = q[2]

\* a list item of an article with headings has rendered its content and its
\* nested list, and the nested list is rendering its own item
C10_Witness ==
    /\ pc = "render"
    /\ heading_id_level # EmptyDict
    /\ \E i \in DOMAIN stack :
           /\ stack[i].fn = "_render_list_item"
           /\ Cardinality(stack[i].passed) = 2
           /\ i + 2 <= Len(stack)
           /\ stack[i + 2].ctx.list_depth = stack[i].ctx.list_depth + 1
====
